---- MODULE Spec2Model ----
(***************************************************************************)
(* Model of the m3u8-reader parsers: the Media Playlist parser             *)
(* (src/src/media_playlist.rs) and the Multi-Variant Playlist parser       *)
(* (src/src/multi_variant.rs).                                             *)
(*                                                                         *)
(* The input text is a sequence of slices: the pieces the logos lexer cuts *)
(* the text into once insignificant whitespace is skipped.  Token(slice)   *)
(* classifies one slice by the rules of the Token enum; a slice no rule    *)
(* matches lexes to an error item.  parse is a loop over the token         *)
(* stream; one action of the model is one iteration of that loop (the      *)
(* pull at the loop head, the match arm and every lookahead the arm        *)
(* makes).  An unknown tag line such as #EXT-X-DISCONTINUITY is a run of   *)
(* unrecognized slices; how many depends on the lexer's error recovery, so *)
(* every run length up to MaxErrRun is among the inputs.                   *)
(*                                                                         *)
(* multi_variant::parse runs a loop of its own and, inside it, the loops   *)
(* of parse_variant_stream and parse_frame_stream on the same lexer; one   *)
(* action is one iteration of whichever of the three loops is running.     *)
(***************************************************************************)
EXTENDS Integers, Sequences, FiniteSets, TLC

VARIABLES
    parser,       \* which parse was called: "media_playlist" or "multi_variant"
    input,        \* the text handed to parse, as a sequence of slices
    lexer,        \* the lexer's cursor: number of tokens already produced
    playlist,     \* the MediaPlaylist builder
    variant_streams,   \* multi_variant::parse: the variant streams pushed
    frame_streams,     \* multi_variant::parse: the frame streams pushed
    sub,          \* the sub-parse that is running: None in the loop of
                  \* multi_variant::parse, else Some of its function, the
                  \* index of the tag that opened it and its locals
    result,       \* "parsing" while the loop runs, then "Ok" or "Err"
    error,        \* the error message once result = "Err", else ""
    dispatched,   \* history: indices of the tokens pulled at a loop head
    segSrc,       \* history: for each segment pushed, the index of its #EXTINF
    streamSrc     \* history: for each stream pushed, its function, the index
                  \* of its tag and the index of the token that ended its
                  \* sub-parse (0 when the token stream ran out instead)

mediaVars == <<playlist, segSrc>>
multiVariantVars == <<variant_streams, frame_streams, sub, streamSrc>>
vars == <<parser, input, lexer, result, error, dispatched, mediaVars, multiVariantVars>>

(***************************************************************************)
(* Bounds of the model.                                                    *)
(***************************************************************************)
MaxLines == 3      \* lines of a well-formed playlist (before #EXT-X-ENDLIST)
MaxEntries == 3    \* entries of an i-frame / malformed playlist
MaxSlices == 3     \* slices of an arbitrary short text
MaxErrRun == 2     \* unrecognized slices one unknown tag line lexes into

(***************************************************************************)
(* Option<T>: None is the empty tuple, Some(x) the one-element tuple.      *)
(***************************************************************************)
None == <<>>
Some(x) == <<x>>

(***************************************************************************)
(* Integer and float conversions.                                          *)
(* A usize is the record [hi, lo] standing for hi * 2^32 + lo with          *)
(* lo < 2^32: the literals at and above 2^32 that the 64-bit lexer accepts *)
(* are values of the model although a single number of the model cannot    *)
(* hold them.  The u8, u16 and u32 results are plain numbers.              *)
(***************************************************************************)
U8Modulus == 256
U16Modulus == 65536
U32HalfModulus == 65536
F32MantissaBits == 24

Usize(hi, lo) == [hi |-> hi, lo |-> lo]

\* `value as u8` on a usize as it would be if the cast saturated
AsU8_Saturating(n) == IF n.hi > 0 \/ n.lo >= U8Modulus THEN U8Modulus - 1 ELSE n.lo

\* `value as u8` on a usize: the low 8 bits (2^32 is a multiple of 2^8)
AsU8(n) == n.lo % U8Modulus

\* `value as u32` on a usize: the low 32 bits, taken as two 16-bit halves
\* (hi counts multiples of 2^32 and drops out)
AsU32(n) ==
    ((n.lo \div U32HalfModulus) % U32HalfModulus) * U32HalfModulus
        + (n.lo % U32HalfModulus)

\* `res.0 as u16` on a usize: the low 16 bits (2^32 is a multiple of 2^16)
AsU16(n) == n.lo % U16Modulus

\* `duration as f32` on an f64.  A float is modelled by its value in
\* quarters (q stands for q/4, always exact in f64); the cast rounds the
\* significand to 24 bits, ties to even.
AsF32(q) ==
    LET lim == 2 ^ F32MantissaBits
        e == CHOOSE x \in 0..7 : q \div (2 ^ x) < lim
                                 /\ (x = 0 \/ q \div (2 ^ (x - 1)) >= lim)
        m == q \div (2 ^ e)
        r == q % (2 ^ e)
        half == (2 ^ e) \div 2
    IN  IF e = 0 THEN q
        ELSE IF r > half \/ (r = half /\ m % 2 = 1) THEN (m + 1) * (2 ^ e)
        ELSE m * (2 ^ e)

(***************************************************************************)
(* Slices of text.                                                         *)
(***************************************************************************)
Word(s) == [c |-> "word", s |-> s]             \* the literal text s
IntLit(n) == [c |-> "int", n |-> n]            \* [0-9]+ with value n
WideLit(hi, lo) == [c |-> "wide", hi |-> hi, lo |-> lo]   \* [0-9]+, hi * 2^32 + lo
FloatLit(q) == [c |-> "float", q |-> q]        \* [0-9]+\.[0-9]+ with value q/4
Quoted(s) == [c |-> "quoted", s |-> s]         \* "s"
RangeLit(a, b) == [c |-> "range", a |-> a, b |-> b]   \* a@b
HttpUrl(s) == [c |-> "url", s |-> s]           \* https://s

(***************************************************************************)
(* The lexer: enum Token with its logos rules.  The number literals of the *)
(* model are within the width of usize and f64, so the number callbacks    *)
(* always yield a value.                                                   *)
(***************************************************************************)
Tok(k) == [k |-> k]
TokV(k, v) == [k |-> k, v |-> v]

\* the fixed texts: #[token(..)] rules and the composite regexes whose
\* callbacks map the text to a value
WordToken(s) ==
    CASE s = "#EXTM3U" -> Tok("ExtM3U")
      [] s = "#EXT-X-ENDLIST" -> Tok("EndList")
      [] s = "#EXT-X-TARGETDURATION" -> Tok("TargetDuration")
      [] s = "#EXT-X-VERSION" -> Tok("Version")
      [] s = "#EXT-X-MEDIA-SEQUENCE" -> Tok("MediaSequence")
      [] s = "#EXT-X-KEY" -> Tok("Key")
      [] s = "#EXT-X-ALLOW-CACHE" -> Tok("AllowCache")
      [] s = "#EXT-X-PLAYLIST-TYPE" -> Tok("PlaylistType")
      [] s = "#EXT-X-I-FRAMES-ONLY" -> Tok("IFramesOnly")
      [] s = "#EXTINF" -> Tok("Inf")
      [] s = "#EXT-X-BYTERANGE" -> Tok("ByteRange")
      [] s = "METHOD" -> Tok("Method")
      [] s = "URI" -> Tok("Uri")
      [] s = "=" -> Tok("Equal")
      [] s = "," -> Tok("Comma")
      [] s = ":" -> Tok("Colon")
      [] s = "AES-128" -> TokV("MethodValue", "Aes128")
      [] s = "SAMPLE-AES" -> TokV("MethodValue", "SampleAes")
      [] s = "NONE" -> TokV("MethodValue", "None")
      [] s = "YES" -> TokV("AllowCacheValue", TRUE)
      [] s = "NO" -> TokV("AllowCacheValue", FALSE)
      [] s = "VOD" -> TokV("PlaylistTypeValue", "Vod")
      [] s = "EVENT" -> TokV("PlaylistTypeValue", "Event")
      [] OTHER -> TokV("Err", s)      \* no rule matches: the lexer's error item

\* Token as it would be if the byte-range callback built offset..length
Token_SwappedRange(slice) ==
    CASE slice.c = "word" -> WordToken(slice.s)
      [] slice.c = "float" -> TokV("Float", slice.q)
      [] slice.c = "int" -> TokV("Integer", Usize(0, slice.n))
      [] slice.c = "wide" -> TokV("Integer", Usize(slice.hi, slice.lo))
      [] slice.c = "quoted" -> TokV("String", slice.s)
      [] slice.c = "range" ->
           TokV("ByteRangeValue", [start |-> slice.b, end |-> slice.a])
      [] slice.c = "url" -> TokV("UriValue", slice.s)

Token(slice) ==
    CASE slice.c = "word" -> WordToken(slice.s)
      [] slice.c = "float" -> TokV("Float", slice.q)
      [] slice.c = "int" -> TokV("Integer", Usize(0, slice.n))
      [] slice.c = "wide" -> TokV("Integer", Usize(slice.hi, slice.lo))
      [] slice.c = "quoted" -> TokV("String", slice.s)
      [] slice.c = "range" ->
           TokV("ByteRangeValue", [start |-> slice.a, end |-> slice.b])
      [] slice.c = "url" -> TokV("UriValue", slice.s)

\* Token::lexer(input): the token stream of the text, in source order
Lexer(text) == [i \in 1..Len(text) |-> Token(text[i])]

tokens == Lexer(input)

(***************************************************************************)
(* lexer.nth(n) with p tokens already produced: n items are pulled and     *)
(* dropped whatever they are, the next one is returned.  When the stream   *)
(* runs out on the way the call returns None with the stream exhausted.    *)
(***************************************************************************)
Nth(toks, p, n) ==
    IF p + n + 1 <= Len(toks)
    THEN [lexer |-> p + n + 1, item |-> Some(toks[p + n + 1])]
    ELSE [lexer |-> Len(toks), item |-> None]

(***************************************************************************)
(* The outcome of one loop iteration.                                      *)
(***************************************************************************)
Continue(p, pl) == [lexer |-> p, playlist |-> pl, result |-> "parsing", error |-> ""]
Return(p, pl) == [lexer |-> p, playlist |-> pl, result |-> "Ok", error |-> ""]
Fail(p, pl, msg) == [lexer |-> p, playlist |-> pl, result |-> "Err", error |-> msg]

\* `match lexer.nth(n).context(msg)?? { Token::<kind>(v) => .., _ => bail!(bad) }`:
\* the value of the token n+1 places on when it is of the wanted kind
Found(r, kind) == r.item # None /\ r.item[1].k = kind

Miss(r, pl, msg, bad) ==
    IF r.item = None THEN Fail(r.lexer, pl, msg)
    ELSE IF r.item[1].k = "Err" THEN Fail(r.lexer, pl, "lex error")
    ELSE Fail(r.lexer, pl, bad)

(***************************************************************************)
(* The MediaPlaylist parse starts from.                                    *)
(***************************************************************************)
\* NewPlaylist as it would be with EVENT as the default playlist type
NewPlaylist_EventDefault ==
    [version |-> 0, media_sequence |-> 0, key |-> None, allow_cache |-> FALSE,
     target_duration |-> 0, playlist_type |-> "Event", iframes_only |-> FALSE,
     segments |-> <<>>]

NewPlaylist ==
    [version |-> 0, media_sequence |-> 0, key |-> None, allow_cache |-> FALSE,
     target_duration |-> 0, playlist_type |-> "Vod", iframes_only |-> FALSE,
     segments |-> <<>>]

(***************************************************************************)
(* The match arms.  p is the cursor after the dispatched token was pulled. *)
(***************************************************************************)
VersionArm(toks, p, pl) ==
    LET r == Nth(toks, p, 1) IN
    IF Found(r, "Integer")
    THEN Continue(r.lexer, [pl EXCEPT !.version = AsU8(r.item[1].v)])
    ELSE Miss(r, pl, "Invalid version", "Invalid version")

MediaSequenceArm(toks, p, pl) ==
    LET r == Nth(toks, p, 1) IN
    IF Found(r, "Integer")
    THEN Continue(r.lexer, [pl EXCEPT !.media_sequence = AsU32(r.item[1].v)])
    ELSE Miss(r, pl, "Invalid media sequence", "Invalid media sequence")

KeyArm(toks, p, pl) ==
    LET m == Nth(toks, p, 3) IN
    IF ~Found(m, "MethodValue")
    THEN Miss(m, pl, "Invalid method", "Invalid method")
    ELSE LET u == Nth(toks, m.lexer, 3) IN
         IF Found(u, "String")
         THEN Continue(u.lexer,
                  [pl EXCEPT !.key = Some([method |-> m.item[1].v,
                                           uri |-> u.item[1].v])])
         ELSE Miss(u, pl, "Invalid URI", "Invalid key URL")

AllowCacheArm(toks, p, pl) ==
    LET r == Nth(toks, p, 1) IN
    IF Found(r, "AllowCacheValue")
    THEN Continue(r.lexer, [pl EXCEPT !.allow_cache = r.item[1].v])
    ELSE Miss(r, pl, "Invalid allow cache", "Invalid allow cache")

TargetDurationArm(toks, p, pl) ==
    LET r == Nth(toks, p, 1) IN
    IF Found(r, "Integer")
    THEN Continue(r.lexer, [pl EXCEPT !.target_duration = AsU32(r.item[1].v)])
    ELSE Miss(r, pl, "Invalid target duration", "Invalid target duration")

\* PlaylistTypeArm as it would be if an unknown value kept the default
PlaylistTypeArm_KeepDefault(toks, p, pl) ==
    LET r == Nth(toks, p, 1) IN
    IF Found(r, "PlaylistTypeValue")
    THEN Continue(r.lexer, [pl EXCEPT !.playlist_type = r.item[1].v])
    ELSE IF r.item = None THEN Fail(r.lexer, pl, "Invalid playlist type")
    ELSE Continue(r.lexer, pl)

PlaylistTypeArm(toks, p, pl) ==
    LET r == Nth(toks, p, 1) IN
    IF Found(r, "PlaylistTypeValue")
    THEN Continue(r.lexer, [pl EXCEPT !.playlist_type = r.item[1].v])
    ELSE Miss(r, pl, "Invalid playlist type", "Invalid playlist type")

IFramesOnlyArm(toks, p, pl) ==
    Continue(p, [pl EXCEPT !.iframes_only = TRUE])

\* ByteRangeLookahead as it would be without the iframes_only gate
ByteRangeLookahead_Ungated(toks, p, pl) ==
    LET b == Nth(toks, p, 3) IN
    [lexer |-> b.lexer,
     byte_range |-> IF Found(b, "ByteRangeValue") THEN Some(b.item[1].v) ELSE None]

\* the byte_range of a segment: looked for only when iframes_only is set
ByteRangeLookahead(toks, p, pl) ==
    IF pl.iframes_only
    THEN LET b == Nth(toks, p, 3) IN
         [lexer |-> b.lexer,
          byte_range |-> IF Found(b, "ByteRangeValue") THEN Some(b.item[1].v)
                         ELSE None]
    ELSE [lexer |-> p, byte_range |-> None]

\* InfArm as it would be if the comma between the duration and the URL
\* were not skipped (url_advance always 0)
InfArm_NoCommaSkip(toks, p, pl) ==
    LET d == Nth(toks, p, 1) IN
    IF ~Found(d, "Float")
    THEN Miss(d, pl, "Invalid duration", "Invalid duration")
    ELSE LET b == ByteRangeLookahead(toks, d.lexer, pl)
             u == Nth(toks, b.lexer, 0)
         IN  IF Found(u, "UriValue")
             THEN Continue(u.lexer,
                      [pl EXCEPT !.segments =
                           Append(@, [duration |-> AsF32(d.item[1].v),
                                      byte_range |-> b.byte_range,
                                      url |-> u.item[1].v])])
             ELSE Miss(u, pl, "Invalid URL", "Invalid URL")

InfArm(toks, p, pl) ==
    LET d == Nth(toks, p, 1) IN
    IF ~Found(d, "Float")
    THEN Miss(d, pl, "Invalid duration", "Invalid duration")
    ELSE LET b == ByteRangeLookahead(toks, d.lexer, pl)
             url_advance == IF b.byte_range # None THEN 0 ELSE 1
             u == Nth(toks, b.lexer, url_advance)
         IN  IF Found(u, "UriValue")
             THEN Continue(u.lexer,
                      [pl EXCEPT !.segments =
                           Append(@, [duration |-> AsF32(d.item[1].v),
                                      byte_range |-> b.byte_range,
                                      url |-> u.item[1].v])])
             ELSE Miss(u, pl, "Invalid URL", "Invalid URL")

\* EndListArm as it would be if the end-list tag were just another ignored tag
EndListArm_Ignored(toks, p, pl) == Continue(p, pl)

\* EndListArm as it would be if it refused to end a playlist without segments
EndListArm_RequiresSegments(toks, p, pl) ==
    IF pl.segments = <<>> THEN Fail(p, pl, "Empty playlist") ELSE Return(p, pl)

EndListArm(toks, p, pl) == Return(p, pl)

\* IgnoreArm as it would be if the ignored token were put back
IgnoreArm_PutsBack(toks, p, pl) == Continue(p - 1, pl)

\* Token::ExtM3U and the `_` arm: nothing happens
IgnoreArm(toks, p, pl) == Continue(p, pl)

\* `token?` on an error item at the loop head
LexErrorArm(toks, p, pl) == Fail(p, pl, "lex error")

(***************************************************************************)
(* The tags parse dispatches on; every other token falls to `_`.           *)
(***************************************************************************)
DispatchTags ==
    {"Version", "MediaSequence", "Key", "AllowCache", "TargetDuration",
     "PlaylistType", "IFramesOnly", "Inf", "EndList"}

Ignored(k) == k \notin DispatchTags /\ k # "Err"

(***************************************************************************)
(* parse as a function of the text: the loop run to its end.               *)
(***************************************************************************)
\* one iteration of the loop with p tokens produced and token p + 1 pulled
Dispatch(toks, p, pl) ==
    LET k == toks[p + 1].k IN
    CASE k = "Version" -> VersionArm(toks, p + 1, pl)
      [] k = "MediaSequence" -> MediaSequenceArm(toks, p + 1, pl)
      [] k = "Key" -> KeyArm(toks, p + 1, pl)
      [] k = "AllowCache" -> AllowCacheArm(toks, p + 1, pl)
      [] k = "TargetDuration" -> TargetDurationArm(toks, p + 1, pl)
      [] k = "PlaylistType" -> PlaylistTypeArm(toks, p + 1, pl)
      [] k = "IFramesOnly" -> IFramesOnlyArm(toks, p + 1, pl)
      [] k = "Inf" -> InfArm(toks, p + 1, pl)
      [] k = "EndList" -> EndListArm(toks, p + 1, pl)
      [] k = "Err" -> LexErrorArm(toks, p + 1, pl)
      [] OTHER -> IgnoreArm(toks, p + 1, pl)

RECURSIVE Loop(_, _, _)
Loop(toks, p, pl) ==
    IF p >= Len(toks) THEN Return(p, pl)
    ELSE LET o == Dispatch(toks, p, pl)
         IN  IF o.result = "parsing" THEN Loop(toks, o.lexer, o.playlist) ELSE o

parse(text) == Loop(Lexer(text), 0, NewPlaylist)

(***************************************************************************)
(* Texts the model parses.                                                 *)
(***************************************************************************)
SeqsUpTo(S, n) == UNION {[1..k -> S] : k \in 0..n}

RECURSIVE Flatten(_)
Flatten(ss) == IF ss = <<>> THEN <<>> ELSE Head(ss) \o Flatten(Tail(ss))

ScalarLine(tag, lit) == <<Word(tag), Word(":"), lit>>
KeyLine(method, uri) ==
    <<Word("#EXT-X-KEY"), Word(":"), Word("METHOD"), Word("="), method,
      Word(","), Word("URI"), Word("="), uri>>
SegmentLines(q, url) ==
    <<Word("#EXTINF"), Word(":"), FloatLit(q), Word(","), HttpUrl(url)>>
RangeSegmentLines(q, a, b, url) ==
    <<Word("#EXTINF"), Word(":"), FloatLit(q), Word(","),
      Word("#EXT-X-BYTERANGE"), Word(":"), RangeLit(a, b), HttpUrl(url)>>
UnknownLine(n) == [i \in 1..n |-> Word("?")]

HeaderLines ==
    { <<Word("#EXTM3U")>>,
      ScalarLine("#EXT-X-VERSION", IntLit(3)),
      ScalarLine("#EXT-X-MEDIA-SEQUENCE", IntLit(1)),
      ScalarLine("#EXT-X-TARGETDURATION", IntLit(17)),
      ScalarLine("#EXT-X-ALLOW-CACHE", Word("YES")),
      ScalarLine("#EXT-X-PLAYLIST-TYPE", Word("EVENT")),
      KeyLine(Word("AES-128"), Quoted("mon.key")) }

PlainSegments == { SegmentLines(6, "segment-1.ts"), SegmentLines(9, "segment-2.ts") }

RangeSegments ==
    { RangeSegmentLines(6, 1316, 376, "segment-1.ts"),
      RangeSegmentLines(9, 44744, 7896, "segment-2.ts") }

\* well-formed playlists without i-frames, with and without #EXT-X-ENDLIST
PlainTexts ==
    { Flatten(ls) \o end : ls \in SeqsUpTo(HeaderLines \cup PlainSegments, MaxLines),
                           end \in {<<>>, <<Word("#EXT-X-ENDLIST")>>} }

\* playlists with #EXT-X-I-FRAMES-ONLY, byte ranges, malformed values and
\* unknown tag lines
MixedEntries ==
    RangeSegments
    \cup { SegmentLines(6, "segment-1.ts"),
           <<Word("#EXT-X-I-FRAMES-ONLY")>>,
           <<Word("#EXT-X-ENDLIST")>>,
           ScalarLine("#EXT-X-VERSION", IntLit(3)),
           ScalarLine("#EXT-X-PLAYLIST-TYPE", Word("EVENT")),
           ScalarLine("#EXT-X-PLAYLIST-TYPE", Quoted("FOO")),
           ScalarLine("#EXT-X-PLAYLIST-TYPE", IntLit(3)),
           KeyLine(Word("AES-128"), Quoted("mon.key")),
           KeyLine(Quoted("FOO"), Quoted("mon.key")),
           KeyLine(Word("FOO"), Quoted("mon.key")) }
    \cup { UnknownLine(n) : n \in 1..MaxErrRun }

MixedTexts == { Flatten(es) : es \in SeqsUpTo(MixedEntries, MaxEntries) }

\* number literals wider than the field they are stored in
WideLines ==
    { ScalarLine("#EXT-X-VERSION", IntLit(259)),
      ScalarLine("#EXT-X-VERSION", WideLit(1, 3)),
      ScalarLine("#EXT-X-MEDIA-SEQUENCE", WideLit(1, 7)),
      ScalarLine("#EXT-X-TARGETDURATION", WideLit(2, 17)),
      ScalarLine("#EXT-X-TARGETDURATION", IntLit(17)) }

WideTexts == { Flatten(ls) : ls \in SeqsUpTo(WideLines, MaxLines) }

\* arbitrary short texts
Slices ==
    { Word("#EXT-X-VERSION"), Word("#EXT-X-PLAYLIST-TYPE"), Word("#EXT-X-KEY"),
      Word("#EXTINF"), Word("#EXT-X-ENDLIST"), Word("#EXT-X-I-FRAMES-ONLY"),
      Word(":"), Word(","), Word("VOD"), Word("AES-128"), Word("?"),
      IntLit(3), FloatLit(6), Quoted("FOO"), HttpUrl("segment-1.ts") }

ShortTexts == SeqsUpTo(Slices, MaxSlices)

Texts == PlainTexts \cup MixedTexts \cup WideTexts \cup ShortTexts

(***************************************************************************)
(* parse: the state before the loop, then one action per loop outcome.     *)
(***************************************************************************)
\* the state both parsers start in
Start ==
    /\ lexer = 0
    /\ playlist = NewPlaylist
    /\ variant_streams = <<>>
    /\ frame_streams = <<>>
    /\ sub = None
    /\ result = "parsing"
    /\ error = ""
    /\ dispatched = <<>>
    /\ segSrc = <<>>
    /\ streamSrc = <<>>

Init ==
    /\ parser = "media_playlist"
    /\ input \in Texts
    /\ Start

\* lexer.next() returned Some(token): token is tokens[lexer + 1]
Pulled(k) ==
    /\ parser = "media_playlist"
    /\ result = "parsing"
    /\ lexer < Len(input)
    /\ tokens[lexer + 1].k = k

Apply(o) ==
    /\ lexer' = o.lexer
    /\ playlist' = o.playlist
    /\ result' = o.result
    /\ error' = o.error
    /\ dispatched' = Append(dispatched, lexer + 1)
    /\ segSrc' = IF Len(o.playlist.segments) > Len(playlist.segments)
                 THEN Append(segSrc, lexer + 1) ELSE segSrc
    /\ UNCHANGED <<parser, input, multiVariantVars>>

Version == Pulled("Version") /\ Apply(VersionArm(tokens, lexer + 1, playlist))

MediaSequence ==
    Pulled("MediaSequence") /\ Apply(MediaSequenceArm(tokens, lexer + 1, playlist))

Key == Pulled("Key") /\ Apply(KeyArm(tokens, lexer + 1, playlist))

AllowCache == Pulled("AllowCache") /\ Apply(AllowCacheArm(tokens, lexer + 1, playlist))

TargetDuration ==
    Pulled("TargetDuration") /\ Apply(TargetDurationArm(tokens, lexer + 1, playlist))

PlaylistType ==
    Pulled("PlaylistType") /\ Apply(PlaylistTypeArm(tokens, lexer + 1, playlist))

IFramesOnly ==
    Pulled("IFramesOnly") /\ Apply(IFramesOnlyArm(tokens, lexer + 1, playlist))

Inf == Pulled("Inf") /\ Apply(InfArm(tokens, lexer + 1, playlist))

EndList == Pulled("EndList") /\ Apply(EndListArm(tokens, lexer + 1, playlist))

Ignore ==
    /\ parser = "media_playlist"
    /\ result = "parsing"
    /\ lexer < Len(input)
    /\ Ignored(tokens[lexer + 1].k)
    /\ Apply(IgnoreArm(tokens, lexer + 1, playlist))

LexError == Pulled("Err") /\ Apply(LexErrorArm(tokens, lexer + 1, playlist))

\* lexer.next() returned None: the loop ends and parse returns Ok(playlist)
Exhausted ==
    /\ parser = "media_playlist"
    /\ result = "parsing"
    /\ lexer >= Len(input)
    /\ result' = "Ok"
    /\ UNCHANGED <<parser, input, lexer, error, dispatched, mediaVars, multiVariantVars>>

Next ==
    \/ Version
    \/ MediaSequence
    \/ Key
    \/ AllowCache
    \/ TargetDuration
    \/ PlaylistType
    \/ IFramesOnly
    \/ Inf
    \/ EndList
    \/ Ignore
    \/ LexError
    \/ Exhausted

Spec == Init /\ [][Next]_vars

(***************************************************************************)
(* multi_variant.rs.  Slices of a Multi-Variant Playlist: the classes      *)
(* above and two more.                                                     *)
(***************************************************************************)
ResLit(w, h) == [c |-> "res", w |-> w, h |-> h]   \* [0-9]+x[0-9]+, reads WxH
M3u8Name(s) == [c |-> "m3u8", s |-> s]           \* [a-zA-Z0-9\-_]+\.m3u8

(***************************************************************************)
(* The lexer of multi_variant.rs: its own enum Token.                      *)
(***************************************************************************)
multi_variant_WordToken(s) ==
    CASE s = "#EXTM3U" -> Tok("ExtM3U")
      [] s = "#EXT-X-STREAM-INF" -> Tok("StreamInf")
      [] s = "#EXT-X-I-FRAME-STREAM-INF" -> Tok("IFrameStreamInf")
      [] s = "PROGRAM-ID" -> Tok("ProgramId")
      [] s = "BANDWIDTH" -> Tok("Bandwidth")
      [] s = "RESOLUTION" -> Tok("Resolution")
      [] s = "FRAME-RATE" -> Tok("FrameRate")
      [] s = "CODECS" -> Tok("Codecs")
      [] s = "URI" -> Tok("Uri")
      [] s = "=" -> Tok("Equal")
      [] s = "," -> Tok("Comma")
      [] s = ":" -> Tok("Colon")
      [] OTHER -> TokV("Err", s)      \* no rule matches: the lexer's error item

multi_variant_Token(slice) ==
    CASE slice.c = "word" -> multi_variant_WordToken(slice.s)
      [] slice.c = "float" -> TokV("Float", slice.q)
      [] slice.c = "int" -> TokV("Integer", Usize(0, slice.n))
      [] slice.c = "wide" -> TokV("Integer", Usize(slice.hi, slice.lo))
      [] slice.c = "quoted" -> TokV("String", slice.s)
      [] slice.c = "res" ->
           TokV("ResolutionValue", <<Usize(0, slice.w), Usize(0, slice.h)>>)
      [] slice.c = "m3u8" -> TokV("UriValue", slice.s)

multi_variant_Lexer(text) == [i \in 1..Len(text) |-> multi_variant_Token(text[i])]

mvTokens == multi_variant_Lexer(input)

(***************************************************************************)
(* The outcome of one iteration of a sub-parse loop: the loop goes on      *)
(* ("parsing"), the function returns Ok(stream) or it returns an error.    *)
(***************************************************************************)
SubContinue(p, st) == [lexer |-> p, stream |-> st, result |-> "parsing", error |-> ""]
SubReturn(p, st) == [lexer |-> p, stream |-> st, result |-> "Ok", error |-> ""]
SubFail(p, st, msg) == [lexer |-> p, stream |-> st, result |-> "Err", error |-> msg]

SubMiss(r, st, msg, bad) ==
    IF r.item = None THEN SubFail(r.lexer, st, msg)
    ELSE IF r.item[1].k = "Err" THEN SubFail(r.lexer, st, "lex error")
    ELSE SubFail(r.lexer, st, bad)

(***************************************************************************)
(* parse_variant_stream: its locals and the arms of its loop.  p is the    *)
(* cursor after the dispatched token was pulled.                           *)
(***************************************************************************)
NewVariantStream ==
    [program_id |-> None, bandwidth |-> 0, resolution |-> <<0, 0>>,
     frame_rate |-> None, codecs |-> None, uri |-> ""]

VariantPunctuationArm(toks, p, st) == SubContinue(p, st)

ProgramIdArm(toks, p, st) ==
    LET r == Nth(toks, p, 1) IN
    IF Found(r, "Integer")
    THEN SubContinue(r.lexer, [st EXCEPT !.program_id = Some(AsU8(r.item[1].v))])
    ELSE SubMiss(r, st, "program id", "Invalid program id")

BandwidthArm(toks, p, st) ==
    LET r == Nth(toks, p, 1) IN
    IF Found(r, "Integer")
    THEN SubContinue(r.lexer, [st EXCEPT !.bandwidth = AsU32(r.item[1].v)])
    ELSE SubMiss(r, st, "bandwidth", "Invalid bandwidth")

ResolutionArm(toks, p, st) ==
    LET r == Nth(toks, p, 1) IN
    IF Found(r, "ResolutionValue")
    THEN SubContinue(r.lexer,
             [st EXCEPT !.resolution = <<AsU16(r.item[1].v[1]), AsU16(r.item[1].v[2])>>])
    ELSE SubMiss(r, st, "resolution", "Invalid resolution")

FrameRateArm(toks, p, st) ==
    LET r == Nth(toks, p, 1) IN
    IF Found(r, "Float")
    THEN SubContinue(r.lexer, [st EXCEPT !.frame_rate = Some(AsF32(r.item[1].v))])
    ELSE SubMiss(r, st, "frame rate", "Invalid frame rate")

CodecsArm(toks, p, st) ==
    LET r == Nth(toks, p, 1) IN
    IF Found(r, "String")
    THEN SubContinue(r.lexer, [st EXCEPT !.codecs = Some(r.item[1].v)])
    ELSE SubMiss(r, st, "codecs", "Invalid codecs")

\* UriValueArm as it would be if the bare URI did not end the sub-parse
UriValueArm_KeepsLooping(toks, p, st) == SubContinue(p, [st EXCEPT !.uri = toks[p].v])

\* the bare URI: recorded, and the loop is left
UriValueArm(toks, p, st) == SubReturn(p, [st EXCEPT !.uri = toks[p].v])

\* InvalidVariantArm as it would be if a token without an arm were skipped
InvalidVariantArm_Skips(toks, p, st) == SubContinue(p, st)

InvalidVariantArm(toks, p, st) == SubFail(p, st, "Invalid variant stream")

\* `token?` on an error item at the head of a sub-parse loop
SubLexErrorArm(toks, p, st) == SubFail(p, st, "lex error")

PunctuationTokens == {"Colon", "Equal", "Comma"}
VariantKeys == {"ProgramId", "Bandwidth", "Resolution", "FrameRate", "Codecs"}

\* one iteration of the loop with p tokens produced and token p + 1 pulled
VariantDispatch(toks, p, st) ==
    LET k == toks[p + 1].k IN
    CASE k \in PunctuationTokens -> VariantPunctuationArm(toks, p + 1, st)
      [] k = "ProgramId" -> ProgramIdArm(toks, p + 1, st)
      [] k = "Bandwidth" -> BandwidthArm(toks, p + 1, st)
      [] k = "Resolution" -> ResolutionArm(toks, p + 1, st)
      [] k = "FrameRate" -> FrameRateArm(toks, p + 1, st)
      [] k = "Codecs" -> CodecsArm(toks, p + 1, st)
      [] k = "UriValue" -> UriValueArm(toks, p + 1, st)
      [] k = "Err" -> SubLexErrorArm(toks, p + 1, st)
      [] OTHER -> InvalidVariantArm(toks, p + 1, st)

RECURSIVE VariantLoop(_, _, _)
VariantLoop(toks, p, st) ==
    IF p >= Len(toks) THEN SubReturn(p, st)
    ELSE LET o == VariantDispatch(toks, p, st)
         IN  IF o.result = "parsing" THEN VariantLoop(toks, o.lexer, o.stream) ELSE o

parse_variant_stream(toks, p) == VariantLoop(toks, p, NewVariantStream)

(***************************************************************************)
(* parse_frame_stream: its locals and the arms of its loop.                *)
(***************************************************************************)
NewFrameStream == [bandwidth |-> 0, resolution |-> <<0, 0>>, codecs |-> "", uri |-> ""]

FramePunctuationArm(toks, p, st) == SubContinue(p, st)

FrameBandwidthArm(toks, p, st) ==
    LET r == Nth(toks, p, 1) IN
    IF Found(r, "Integer")
    THEN SubContinue(r.lexer, [st EXCEPT !.bandwidth = AsU32(r.item[1].v)])
    ELSE SubMiss(r, st, "bandwidth", "Invalid bandwidth")

FrameResolutionArm(toks, p, st) ==
    LET r == Nth(toks, p, 1) IN
    IF Found(r, "ResolutionValue")
    THEN SubContinue(r.lexer,
             [st EXCEPT !.resolution = <<AsU16(r.item[1].v[1]), AsU16(r.item[1].v[2])>>])
    ELSE SubMiss(r, st, "resolution", "Invalid resolution")

FrameCodecsArm(toks, p, st) ==
    LET r == Nth(toks, p, 1) IN
    IF Found(r, "String")
    THEN SubContinue(r.lexer, [st EXCEPT !.codecs = r.item[1].v])
    ELSE SubMiss(r, st, "codecs", "Invalid codecs")

\* URI="...": recorded, and the loop is left
FrameUriArm(toks, p, st) ==
    LET r == Nth(toks, p, 1) IN
    IF Found(r, "String")
    THEN SubReturn(r.lexer, [st EXCEPT !.uri = r.item[1].v])
    ELSE SubMiss(r, st, "uri", "Invalid uri")

InvalidFrameArm(toks, p, st) == SubFail(p, st, "Invalid frame stream")

FrameKeys == {"Bandwidth", "Resolution", "Codecs", "Uri"}

FrameDispatch(toks, p, st) ==
    LET k == toks[p + 1].k IN
    CASE k \in PunctuationTokens -> FramePunctuationArm(toks, p + 1, st)
      [] k = "Bandwidth" -> FrameBandwidthArm(toks, p + 1, st)
      [] k = "Resolution" -> FrameResolutionArm(toks, p + 1, st)
      [] k = "Codecs" -> FrameCodecsArm(toks, p + 1, st)
      [] k = "Uri" -> FrameUriArm(toks, p + 1, st)
      [] k = "Err" -> SubLexErrorArm(toks, p + 1, st)
      [] OTHER -> InvalidFrameArm(toks, p + 1, st)

RECURSIVE FrameLoop(_, _, _)
FrameLoop(toks, p, st) ==
    IF p >= Len(toks) THEN SubReturn(p, st)
    ELSE LET o == FrameDispatch(toks, p, st)
         IN  IF o.result = "parsing" THEN FrameLoop(toks, o.lexer, o.stream) ELSE o

parse_frame_stream(toks, p) == FrameLoop(toks, p, NewFrameStream)

(***************************************************************************)
(* multi_variant::parse as a function of the text.                         *)
(***************************************************************************)
MultiVariantOutcome(p, vs, fs, res, msg) ==
    [lexer |-> p, variant_streams |-> vs, frame_streams |-> fs,
     result |-> res, error |-> msg]

\* variant_streams.push(parse_variant_stream(&mut lexer)?)
StreamInfArm(toks, p, vs, fs) ==
    LET o == parse_variant_stream(toks, p) IN
    IF o.result = "Ok"
    THEN MultiVariantOutcome(o.lexer, Append(vs, o.stream), fs, "parsing", "")
    ELSE MultiVariantOutcome(o.lexer, vs, fs, "Err", o.error)

\* frame_streams.push(parse_frame_stream(&mut lexer)?)
IFrameStreamInfArm(toks, p, vs, fs) ==
    LET o == parse_frame_stream(toks, p) IN
    IF o.result = "Ok"
    THEN MultiVariantOutcome(o.lexer, vs, Append(fs, o.stream), "parsing", "")
    ELSE MultiVariantOutcome(o.lexer, vs, fs, "Err", o.error)

\* Token::ExtM3U and the `_` arm: nothing happens
MultiVariantIgnoreArm(toks, p, vs, fs) == MultiVariantOutcome(p, vs, fs, "parsing", "")

MultiVariantLexErrorArm(toks, p, vs, fs) ==
    MultiVariantOutcome(p, vs, fs, "Err", "lex error")

MultiVariantDispatch(toks, p, vs, fs) ==
    LET k == toks[p + 1].k IN
    CASE k = "StreamInf" -> StreamInfArm(toks, p + 1, vs, fs)
      [] k = "IFrameStreamInf" -> IFrameStreamInfArm(toks, p + 1, vs, fs)
      [] k = "Err" -> MultiVariantLexErrorArm(toks, p + 1, vs, fs)
      [] OTHER -> MultiVariantIgnoreArm(toks, p + 1, vs, fs)

RECURSIVE MultiVariantLoop(_, _, _, _)
MultiVariantLoop(toks, p, vs, fs) ==
    IF p >= Len(toks) THEN MultiVariantOutcome(p, vs, fs, "Ok", "")
    ELSE LET o == MultiVariantDispatch(toks, p, vs, fs)
         IN  IF o.result = "parsing"
             THEN MultiVariantLoop(toks, o.lexer, o.variant_streams, o.frame_streams)
             ELSE o

multi_variant_parse(text) == MultiVariantLoop(multi_variant_Lexer(text), 0, <<>>, <<>>)

(***************************************************************************)
(* multi_variant::parse step by step: one action per iteration of the loop *)
(* that is running.                                                        *)
(***************************************************************************)
\* lexer.next() returned Some(token) at the head of the loop of fn
SubPulled(fn) ==
    /\ parser = "multi_variant"
    /\ result = "parsing"
    /\ lexer < Len(input)
    /\ IF fn = "parse" THEN sub = None ELSE sub # None /\ sub[1].fn = fn

\* the arms of multi_variant::parse that open no sub-parse
MultiVariantApply(o) ==
    /\ lexer' = o.lexer
    /\ result' = o.result
    /\ error' = o.error
    /\ dispatched' = Append(dispatched, lexer + 1)
    /\ UNCHANGED <<parser, input, mediaVars, multiVariantVars>>

MultiVariantIgnore ==
    /\ SubPulled("parse")
    /\ mvTokens[lexer + 1].k \notin {"StreamInf", "IFrameStreamInf", "Err"}
    /\ MultiVariantApply(
           MultiVariantIgnoreArm(mvTokens, lexer + 1, variant_streams, frame_streams))

MultiVariantLexError ==
    /\ SubPulled("parse")
    /\ mvTokens[lexer + 1].k = "Err"
    /\ MultiVariantApply(
           MultiVariantLexErrorArm(mvTokens, lexer + 1, variant_streams, frame_streams))

\* the call of a sub-parse: its loop runs next, on the same lexer
Open(fn, st) ==
    /\ lexer' = lexer + 1
    /\ sub' = Some([fn |-> fn, tag |-> lexer + 1, stream |-> st])
    /\ dispatched' = Append(dispatched, lexer + 1)
    /\ UNCHANGED <<parser, input, result, error, mediaVars,
                   variant_streams, frame_streams, streamSrc>>

StreamInf ==
    /\ SubPulled("parse")
    /\ mvTokens[lexer + 1].k = "StreamInf"
    /\ Open("parse_variant_stream", NewVariantStream)

IFrameStreamInf ==
    /\ SubPulled("parse")
    /\ mvTokens[lexer + 1].k = "IFrameStreamInf"
    /\ Open("parse_frame_stream", NewFrameStream)

\* the sub-parse returned Ok(stream): the caller pushes it and loops on
Push(st, end) ==
    /\ IF sub[1].fn = "parse_variant_stream"
       THEN /\ variant_streams' = Append(variant_streams, st)
            /\ UNCHANGED frame_streams
       ELSE /\ frame_streams' = Append(frame_streams, st)
            /\ UNCHANGED variant_streams
    /\ sub' = None
    /\ streamSrc' = Append(streamSrc, [fn |-> sub[1].fn, tag |-> sub[1].tag, end |-> end])

\* one iteration of a sub-parse loop with outcome o
SubApply(o) ==
    /\ lexer' = o.lexer
    /\ dispatched' = Append(dispatched, lexer + 1)
    /\ CASE o.result = "parsing" ->
              /\ sub' = Some([sub[1] EXCEPT !.stream = o.stream])
              /\ UNCHANGED <<result, error, variant_streams, frame_streams, streamSrc>>
         [] o.result = "Ok" ->
              /\ Push(o.stream, lexer + 1)
              /\ UNCHANGED <<result, error>>
         [] o.result = "Err" ->
              /\ result' = "Err"
              /\ error' = o.error
              /\ UNCHANGED multiVariantVars
    /\ UNCHANGED <<parser, input, mediaVars>>

VariantPulled(k) ==
    SubPulled("parse_variant_stream") /\ mvTokens[lexer + 1].k = k

VariantPunctuation ==
    /\ SubPulled("parse_variant_stream")
    /\ mvTokens[lexer + 1].k \in PunctuationTokens
    /\ SubApply(VariantPunctuationArm(mvTokens, lexer + 1, sub[1].stream))

ProgramId ==
    VariantPulled("ProgramId") /\ SubApply(ProgramIdArm(mvTokens, lexer + 1, sub[1].stream))

Bandwidth ==
    VariantPulled("Bandwidth") /\ SubApply(BandwidthArm(mvTokens, lexer + 1, sub[1].stream))

Resolution ==
    VariantPulled("Resolution") /\ SubApply(ResolutionArm(mvTokens, lexer + 1, sub[1].stream))

FrameRate ==
    VariantPulled("FrameRate") /\ SubApply(FrameRateArm(mvTokens, lexer + 1, sub[1].stream))

Codecs ==
    VariantPulled("Codecs") /\ SubApply(CodecsArm(mvTokens, lexer + 1, sub[1].stream))

UriValue ==
    VariantPulled("UriValue") /\ SubApply(UriValueArm(mvTokens, lexer + 1, sub[1].stream))

VariantLexError ==
    VariantPulled("Err") /\ SubApply(SubLexErrorArm(mvTokens, lexer + 1, sub[1].stream))

InvalidVariant ==
    /\ SubPulled("parse_variant_stream")
    /\ mvTokens[lexer + 1].k \notin
           PunctuationTokens \cup VariantKeys \cup {"UriValue", "Err"}
    /\ SubApply(InvalidVariantArm(mvTokens, lexer + 1, sub[1].stream))

FramePulled(k) ==
    SubPulled("parse_frame_stream") /\ mvTokens[lexer + 1].k = k

FramePunctuation ==
    /\ SubPulled("parse_frame_stream")
    /\ mvTokens[lexer + 1].k \in PunctuationTokens
    /\ SubApply(FramePunctuationArm(mvTokens, lexer + 1, sub[1].stream))

FrameBandwidth ==
    FramePulled("Bandwidth")
        /\ SubApply(FrameBandwidthArm(mvTokens, lexer + 1, sub[1].stream))

FrameResolution ==
    FramePulled("Resolution")
        /\ SubApply(FrameResolutionArm(mvTokens, lexer + 1, sub[1].stream))

FrameCodecs ==
    FramePulled("Codecs") /\ SubApply(FrameCodecsArm(mvTokens, lexer + 1, sub[1].stream))

FrameUri ==
    FramePulled("Uri") /\ SubApply(FrameUriArm(mvTokens, lexer + 1, sub[1].stream))

FrameLexError ==
    FramePulled("Err") /\ SubApply(SubLexErrorArm(mvTokens, lexer + 1, sub[1].stream))

InvalidFrame ==
    /\ SubPulled("parse_frame_stream")
    /\ mvTokens[lexer + 1].k \notin PunctuationTokens \cup FrameKeys \cup {"Err"}
    /\ SubApply(InvalidFrameArm(mvTokens, lexer + 1, sub[1].stream))

\* lexer.next() returned None at the head of a sub-parse loop: the loop
\* ends and the function returns Ok with its locals as they are
SubExhausted ==
    /\ parser = "multi_variant"
    /\ result = "parsing"
    /\ sub # None
    /\ lexer >= Len(input)
    /\ Push(sub[1].stream, 0)
    /\ UNCHANGED <<parser, input, lexer, result, error, dispatched, mediaVars>>

\* lexer.next() returned None in multi_variant::parse: Ok(MultiVariantPlaylist)
MultiVariantExhausted ==
    /\ parser = "multi_variant"
    /\ result = "parsing"
    /\ sub = None
    /\ lexer >= Len(input)
    /\ result' = "Ok"
    /\ UNCHANGED <<parser, input, lexer, error, dispatched, mediaVars, multiVariantVars>>

(***************************************************************************)
(* Texts multi_variant::parse is run on.                                   *)
(***************************************************************************)
Attr(key, value) == <<Word(key), Word("="), value>>

\* KEY=VALUE pairs written as an attribute list: commas between them
RECURSIVE AttrList(_)
AttrList(pairs) ==
    IF pairs = <<>> THEN <<>>
    ELSE IF Len(pairs) = 1 THEN pairs[1]
    ELSE pairs[1] \o <<Word(",")>> \o AttrList(Tail(pairs))

StreamInfLines(pairs, uri) ==
    <<Word("#EXT-X-STREAM-INF"), Word(":")>> \o AttrList(pairs) \o <<M3u8Name(uri)>>

IFrameStreamInfLine(pairs) ==
    <<Word("#EXT-X-I-FRAME-STREAM-INF"), Word(":")>> \o AttrList(pairs)

VariantEntries ==
    { StreamInfLines(<<Attr("PROGRAM-ID", IntLit(1)),
                       Attr("BANDWIDTH", IntLit(2553505)),
                       Attr("RESOLUTION", ResLit(1920, 1080)),
                       Attr("FRAME-RATE", FloatLit(100)),
                       Attr("CODECS", Quoted("avc1.640032,mp4a.40.2"))>>,
                     "index-f1-v1-a1.m3u8"),
      StreamInfLines(<<Attr("RESOLUTION", ResLit(1280, 720)),
                       Attr("BANDWIDTH", IntLit(1420969))>>,
                     "index-f2-v1-a1.m3u8") }

FrameEntries ==
    { IFrameStreamInfLine(<<Attr("BANDWIDTH", IntLit(217533)),
                            Attr("RESOLUTION", ResLit(1920, 1080)),
                            Attr("CODECS", Quoted("avc1.640032")),
                            Attr("URI", Quoted("iframes-f1-v1-a1.m3u8"))>>),
      IFrameStreamInfLine(<<Attr("CODECS", Quoted("avc1.64001f")),
                            Attr("RESOLUTION", ResLit(1280, 720)),
                            Attr("BANDWIDTH", IntLit(140609)),
                            Attr("URI", Quoted("iframes-f2-v1-a1.m3u8"))>>) }

\* well-formed playlists: stream entries in any interleaving
StreamTexts ==
    { Flatten(es) :
          es \in SeqsUpTo(VariantEntries \cup FrameEntries \cup {<<Word("#EXTM3U")>>},
                          MaxLines) }

\* entries with a value of the wrong kind, entries that lack an attribute
\* or their terminator, a URI= that is not last, literals wider than their
\* field, unknown lines
OddEntries ==
    { StreamInfLines(<<Attr("PROGRAM-ID", Quoted("1")),
                       Attr("BANDWIDTH", IntLit(641061)),
                       Attr("RESOLUTION", ResLit(640, 360))>>,
                     "index-f3-v1-a1.m3u8"),
      StreamInfLines(<<Attr("CODECS", Quoted("avc1.64001e,mp4a.40.2"))>>,
                     "index-f3-v1-a1.m3u8"),
      StreamInfLines(<<Attr("PROGRAM-ID", IntLit(259)),
                       Attr("BANDWIDTH", WideLit(1, 641061)),
                       Attr("RESOLUTION", ResLit(67456, 65896))>>,
                     "index-f3-v1-a1.m3u8"),
      <<Word("#EXT-X-STREAM-INF"), Word(":")>>
          \o AttrList(<<Attr("BANDWIDTH", IntLit(641061)),
                        Attr("RESOLUTION", ResLit(640, 360))>>),
      IFrameStreamInfLine(<<Attr("URI", Quoted("iframes-f3-v1-a1.m3u8")),
                            Attr("BANDWIDTH", IntLit(58096)),
                            Attr("RESOLUTION", ResLit(640, 360)),
                            Attr("CODECS", Quoted("avc1.64001e"))>>),
      IFrameStreamInfLine(<<Attr("BANDWIDTH", WideLit(2, 58096)),
                            Attr("URI", Quoted("iframes-f3-v1-a1.m3u8"))>>),
      IFrameStreamInfLine(<<Attr("BANDWIDTH", IntLit(58096))>>),
      UnknownLine(1) }

OddTexts ==
    { Flatten(es) :
          es \in SeqsUpTo(OddEntries \cup { CHOOSE e \in VariantEntries : Len(e) > 12,
                                            CHOOSE e \in FrameEntries : TRUE },
                          MaxEntries) }

\* arbitrary short texts
StreamSlices ==
    { Word("#EXT-X-STREAM-INF"), Word("#EXT-X-I-FRAME-STREAM-INF"),
      Word("PROGRAM-ID"), Word("BANDWIDTH"), Word("URI"), Word("="), Word("?"),
      IntLit(1), Quoted("a.m3u8"), M3u8Name("a.m3u8") }

ShortStreamTexts == SeqsUpTo(StreamSlices, MaxSlices)

MultiVariantTexts == StreamTexts \cup OddTexts \cup ShortStreamTexts

InitMultiVariant ==
    /\ parser = "multi_variant"
    /\ input \in MultiVariantTexts
    /\ Start

NextMultiVariant ==
    \/ MultiVariantIgnore
    \/ MultiVariantLexError
    \/ StreamInf
    \/ IFrameStreamInf
    \/ VariantPunctuation
    \/ ProgramId
    \/ Bandwidth
    \/ Resolution
    \/ FrameRate
    \/ Codecs
    \/ UriValue
    \/ VariantLexError
    \/ InvalidVariant
    \/ FramePunctuation
    \/ FrameBandwidth
    \/ FrameResolution
    \/ FrameCodecs
    \/ FrameUri
    \/ FrameLexError
    \/ InvalidFrame
    \/ SubExhausted
    \/ MultiVariantExhausted

SpecMultiVariant == InitMultiVariant /\ [][NextMultiVariant]_vars

\* the step-by-step run and the function agree on every finished parse
StepsAgreeWithFunction ==
    (parser = "multi_variant" /\ result # "parsing") =>
        LET o == multi_variant_parse(input)
        IN  /\ o.result = result
            /\ o.error = error
            /\ o.lexer = lexer
            /\ o.variant_streams = variant_streams
            /\ o.frame_streams = frame_streams

(***************************************************************************)
(* How a playlist is written: recognizers over the text.                   *)
(***************************************************************************)
IntegerTags == {"#EXT-X-VERSION", "#EXT-X-MEDIA-SEQUENCE", "#EXT-X-TARGETDURATION"}
ScalarTags == IntegerTags \cup {"#EXT-X-ALLOW-CACHE", "#EXT-X-PLAYLIST-TYPE"}
MethodWords == {"AES-128", "SAMPLE-AES", "NONE"}

IsWord(x, s) == x.c = "word" /\ x.s = s
IsWordIn(x, S) == x.c = "word" /\ x.s \in S

\* Tag ':' literal at slice i, the literal of the kind the tag takes and,
\* for a number, within the range of the field
ScalarAt(t, i) ==
    /\ i + 2 <= Len(t)
    /\ IsWordIn(t[i], ScalarTags)
    /\ IsWord(t[i + 1], ":")
    /\ IF t[i].s \in IntegerTags
       THEN t[i + 2].c = "int" /\ (t[i].s = "#EXT-X-VERSION" => t[i + 2].n < U8Modulus)
       ELSE IF t[i].s = "#EXT-X-ALLOW-CACHE" THEN IsWordIn(t[i + 2], {"YES", "NO"})
       ELSE IsWordIn(t[i + 2], {"VOD", "EVENT"})

\* '#EXT-X-KEY' ':' METHOD '=' method ',' URI '=' quoted-string at slice i
KeyAt(t, i) ==
    /\ i + 8 <= Len(t)
    /\ IsWord(t[i], "#EXT-X-KEY") /\ IsWord(t[i + 1], ":")
    /\ IsWord(t[i + 2], "METHOD") /\ IsWord(t[i + 3], "=")
    /\ IsWordIn(t[i + 4], MethodWords)
    /\ IsWord(t[i + 5], ",") /\ IsWord(t[i + 6], "URI") /\ IsWord(t[i + 7], "=")
    /\ t[i + 8].c = "quoted"

\* '#EXTINF' ':' float ',' absolute-URI at slice i
SegmentAt(t, i) ==
    /\ i + 4 <= Len(t)
    /\ IsWord(t[i], "#EXTINF") /\ IsWord(t[i + 1], ":")
    /\ t[i + 2].c = "float"
    /\ IsWord(t[i + 3], ",")
    /\ t[i + 4].c = "url"

\* '#EXTINF' ':' float ',' '#EXT-X-BYTERANGE' ':' L@O absolute-URI at slice i
RangeSegmentAt(t, i) ==
    /\ i + 7 <= Len(t)
    /\ IsWord(t[i], "#EXTINF") /\ IsWord(t[i + 1], ":")
    /\ t[i + 2].c = "float"
    /\ IsWord(t[i + 3], ",")
    /\ IsWord(t[i + 4], "#EXT-X-BYTERANGE") /\ IsWord(t[i + 5], ":")
    /\ t[i + 6].c = "range"
    /\ t[i + 7].c = "url"

\* a slice no lexer rule matches
Unrecognized(x) ==
    x.c = "word" /\ x.s \notin
        (ScalarTags \cup MethodWords
         \cup {"#EXTM3U", "#EXT-X-ENDLIST", "#EXT-X-KEY", "#EXT-X-I-FRAMES-ONLY",
               "#EXTINF", "#EXT-X-BYTERANGE", "METHOD", "URI", "=", ",", ":",
               "YES", "NO", "VOD", "EVENT"})

\* The text from slice i on is a run of well-formed lines.  ifo: an
\* #EXT-X-I-FRAMES-ONLY line came before; segments carry a byte range
\* exactly then.  unk: unknown tag lines may stand between the lines.
\* end: the text must end with #EXT-X-ENDLIST.
RECURSIVE LinesFrom(_, _, _, _, _)
LinesFrom(t, i, ifo, unk, end) ==
    IF i > Len(t) THEN ~end
    ELSE IF IsWord(t[i], "#EXT-X-ENDLIST") THEN i = Len(t)
    ELSE IF IsWord(t[i], "#EXTM3U") THEN LinesFrom(t, i + 1, ifo, unk, end)
    ELSE IF IsWord(t[i], "#EXT-X-I-FRAMES-ONLY") THEN LinesFrom(t, i + 1, TRUE, unk, end)
    ELSE IF ScalarAt(t, i) THEN LinesFrom(t, i + 3, ifo, unk, end)
    ELSE IF KeyAt(t, i) THEN LinesFrom(t, i + 9, ifo, unk, end)
    ELSE IF ~ifo /\ SegmentAt(t, i) THEN LinesFrom(t, i + 5, ifo, unk, end)
    ELSE IF ifo /\ RangeSegmentAt(t, i) THEN LinesFrom(t, i + 8, ifo, unk, end)
    ELSE IF unk /\ Unrecognized(t[i]) THEN LinesFrom(t, i + 1, ifo, unk, end)
    ELSE FALSE

Occurrences(t, s) == {i \in 1..Len(t) : IsWord(t[i], s)}

\* no scalar tag and no key is written twice
TagsOnce(t) ==
    \A s \in ScalarTags \cup {"#EXT-X-KEY"} : Cardinality(Occurrences(t, s)) <= 1

\* the elements of a set of numbers in increasing order
RECURSIVE Ascending(_)
Ascending(S) ==
    IF S = {} THEN <<>>
    ELSE LET m == CHOOSE x \in S : \A y \in S : x <= y
         IN  <<m>> \o Ascending(S \ {m})

\* what a well-formed text writes
MethodNamed(s) ==
    IF s = "AES-128" THEN "Aes128" ELSE IF s = "SAMPLE-AES" THEN "SampleAes" ELSE "None"

\* the playlist pl carries, for every header tag written in t, the value written
HeaderAsWritten(t, pl) ==
    \A i \in 1..Len(t) :
        /\ IsWord(t[i], "#EXT-X-VERSION") => pl.version = t[i + 2].n
        /\ IsWord(t[i], "#EXT-X-MEDIA-SEQUENCE") => pl.media_sequence = t[i + 2].n
        /\ IsWord(t[i], "#EXT-X-TARGETDURATION") => pl.target_duration = t[i + 2].n
        /\ IsWord(t[i], "#EXT-X-ALLOW-CACHE") => pl.allow_cache = IsWord(t[i + 2], "YES")
        /\ IsWord(t[i], "#EXT-X-PLAYLIST-TYPE") =>
               pl.playlist_type = (IF IsWord(t[i + 2], "VOD") THEN "Vod" ELSE "Event")
        /\ IsWord(t[i], "#EXT-X-KEY") =>
               pl.key = Some([method |-> MethodNamed(t[i + 4].s), uri |-> t[i + 8].s])

\* the segment a well-formed #EXTINF at slice i writes
SegmentWritten(t, i) ==
    IF RangeSegmentAt(t, i)
    THEN [duration |-> t[i + 2].q,
          byte_range |-> Some([start |-> t[i + 6].a, end |-> t[i + 6].b]),
          url |-> t[i + 7].s]
    ELSE [duration |-> t[i + 2].q, byte_range |-> None, url |-> t[i + 4].s]

SegmentsWritten(t) ==
    LET at == Ascending(Occurrences(t, "#EXTINF"))
    IN  [n \in 1..Len(at) |-> SegmentWritten(t, at[n])]

(***************************************************************************)
(* C1: a well-formed Media Playlist without #EXT-X-I-FRAMES-ONLY, ended by *)
(* #EXT-X-ENDLIST, parses to Ok with every header field equal to the value *)
(* written, iframes_only false, and one segment per #EXTINF, in order,     *)
(* with the duration and URL written and no byte range.                    *)
(***************************************************************************)
WellFormedPlain(t) ==
    /\ LinesFrom(t, 1, FALSE, FALSE, TRUE)
    /\ TagsOnce(t)
    /\ Occurrences(t, "#EXT-X-I-FRAMES-ONLY") = {}

C1_WellFormedPlaylistParsed ==
    (WellFormedPlain(input) /\ result # "parsing") =>
        /\ result = "Ok"
        /\ HeaderAsWritten(input, playlist)
        /\ playlist.iframes_only = FALSE
        /\ playlist.segments = SegmentsWritten(input)
        /\ \A n \in 1..Len(playlist.segments) : playlist.segments[n].byte_range = None

C1_Witness ==
    /\ WellFormedPlain(input)
    /\ result = "Ok"
    /\ playlist.key # None
    /\ Len(playlist.segments) = 2
    /\ playlist.segments[1].url # playlist.segments[2].url

(***************************************************************************)
(* History of the run, read from dispatched and segSrc.                    *)
(***************************************************************************)
Dispatches == 1..Len(dispatched)

\* an #EXT-X-I-FRAMES-ONLY token was dispatched before token p
FlagSetBefore(p) ==
    \E j \in Dispatches :
        tokens[dispatched[j]].k = "IFramesOnly" /\ dispatched[j] < p

\* the #EXTINF at token p produced a segment equal to seg
Produced(p, seg) ==
    \E n \in 1..Len(segSrc) : segSrc[n] = p /\ playlist.segments[n] = seg

LastDispatched == tokens[dispatched[Len(dispatched)]]

(***************************************************************************)
(* C2 (as claimed): whenever parse returns Ok, the segments come, in       *)
(* order, from exactly the #EXTINF tokens of the text that precede the     *)
(* terminating #EXT-X-ENDLIST; no #EXTINF token is passed over.            *)
(***************************************************************************)
Terminator ==
    IF dispatched # <<>> /\ LastDispatched.k = "EndList"
    THEN dispatched[Len(dispatched)] ELSE Len(input) + 1

C2_EveryInfTokenYieldsItsSegment ==
    result = "Ok" =>
        segSrc = Ascending({i \in 1..Len(input) :
                               tokens[i].k = "Inf" /\ i < Terminator})

(***************************************************************************)
(* C3: a segment has a byte_range only if an #EXT-X-I-FRAMES-ONLY token    *)
(* was dispatched before the segment's #EXTINF token.                      *)
(***************************************************************************)
C3_ByteRangeOnlyAfterIFramesOnly ==
    \A n \in 1..Len(playlist.segments) :
        playlist.segments[n].byte_range # None => FlagSetBefore(segSrc[n])

C3_Witness ==
    /\ result = "Ok"
    /\ \E n, m \in 1..Len(playlist.segments) :
           /\ n < m
           /\ playlist.segments[n].byte_range = None
           /\ playlist.segments[m].byte_range # None

(***************************************************************************)
(* C4 (as claimed): without #EXT-X-I-FRAMES-ONLY, a segment written with a *)
(* byte range is still parsed: the segment is appended with byte_range     *)
(* absent and its own URI.                                                 *)
(***************************************************************************)
C4_ByteRangeDroppedSegmentKept ==
    Occurrences(input, "#EXT-X-I-FRAMES-ONLY") = {} =>
        \A j \in Dispatches :
            RangeSegmentAt(input, dispatched[j]) =>
                Produced(dispatched[j],
                         [duration |-> input[dispatched[j] + 2].q,
                          byte_range |-> None,
                          url |-> input[dispatched[j] + 7].s])

(***************************************************************************)
(* C5: once #EXT-X-I-FRAMES-ONLY was dispatched, an #EXTINF dispatched on  *)
(* a segment written with a byte range L@O and a URI appends that segment  *)
(* with byte_range (start L, end O) and that URI, and leaves the cursor on *)
(* the token after the URI, which is the next one dispatched.  A playlist  *)
(* whose lines are all well-formed, its segments after the i-frames tag    *)
(* all written with a byte range, parses to Ok with exactly the segments   *)
(* written.                                                                *)
(***************************************************************************)
WellFormedIFrames(t) ==
    /\ LinesFrom(t, 1, FALSE, FALSE, FALSE)
    /\ Occurrences(t, "#EXT-X-I-FRAMES-ONLY") # {}

C5_ByteRangeSegmentAfterIFramesOnly ==
    /\ \A j \in Dispatches :
           LET p == dispatched[j] IN
           (RangeSegmentAt(input, p) /\ FlagSetBefore(p)) =>
               /\ Produced(p, SegmentWritten(input, p))
               /\ IF j < Len(dispatched) THEN dispatched[j + 1] = p + 8
                  ELSE lexer = p + 7
    /\ (WellFormedIFrames(input) /\ result # "parsing") =>
           /\ result = "Ok"
           /\ playlist.iframes_only
           /\ playlist.segments = SegmentsWritten(input)

C5_Witness ==
    /\ result = "Ok"
    /\ WellFormedIFrames(input)
    /\ Len(playlist.segments) = 2
    /\ playlist.segments[1].byte_range = Some([start |-> 1316, end |-> 376])
    /\ playlist.segments[2].byte_range = Some([start |-> 44744, end |-> 7896])

(***************************************************************************)
(* C6 (as claimed): with iframes_only set, an #EXTINF dispatched on a      *)
(* segment written without a byte range ('#EXTINF' ':' float ',' URI)      *)
(* appends the segment with byte_range absent and its own URI.             *)
(***************************************************************************)
C6_MissingByteRangeIsNoError ==
    \A j \in Dispatches :
        LET p == dispatched[j] IN
        (SegmentAt(input, p) /\ FlagSetBefore(p)) =>
            Produced(p, [duration |-> input[p + 2].q,
                         byte_range |-> None,
                         url |-> input[p + 4].s])

(***************************************************************************)
(* C7: a field whose tag does not occur in the text has its default in     *)
(* every Ok result (0 for version, media_sequence and target_duration, Vod *)
(* for playlist_type, false for allow_cache, no key); a missing tag is     *)
(* never what fails a parse: an error is always raised at a token that is  *)
(* there, and a text of well-formed lines parses whichever tags it lacks;  *)
(* the empty text parses to Ok with every default and no segment.          *)
(***************************************************************************)
NoToken(k) == \A i \in 1..Len(input) : tokens[i].k # k

C7_AbsentTagsGiveDefaults ==
    /\ result = "Ok" =>
           /\ NoToken("Version") => playlist.version = 0
           /\ NoToken("MediaSequence") => playlist.media_sequence = 0
           /\ NoToken("TargetDuration") => playlist.target_duration = 0
           /\ NoToken("PlaylistType") => playlist.playlist_type = "Vod"
           /\ NoToken("AllowCache") => playlist.allow_cache = FALSE
           /\ NoToken("Key") => playlist.key = None
    /\ result = "Err" =>
           /\ dispatched # <<>>
           /\ LastDispatched.k \in
                  {"Err", "Version", "MediaSequence", "Key", "AllowCache",
                   "TargetDuration", "PlaylistType", "Inf"}
    /\ (LinesFrom(input, 1, FALSE, FALSE, FALSE) /\ result # "parsing"
        /\ Occurrences(input, "#EXT-X-I-FRAMES-ONLY") = {}) => result = "Ok"
    /\ (input = <<>> /\ result # "parsing") =>
           /\ result = "Ok"
           /\ playlist = [version |-> 0, media_sequence |-> 0, key |-> <<>>,
                          allow_cache |-> FALSE, target_duration |-> 0,
                          playlist_type |-> "Vod", iframes_only |-> FALSE,
                          segments |-> <<>>]

C7_Witness ==
    /\ result = "Ok"
    /\ NoToken("Version") /\ NoToken("MediaSequence") /\ NoToken("TargetDuration")
    /\ NoToken("PlaylistType") /\ NoToken("AllowCache") /\ NoToken("Key")
    /\ Len(playlist.segments) = 2

(***************************************************************************)
(* C8: when the token the lookahead reaches after a dispatched             *)
(* #EXT-X-PLAYLIST-TYPE is not a playlist type value, or the token reached *)
(* after a dispatched #EXT-X-KEY is not a method value, parse returns an   *)
(* error: no playlist is returned with the field at a default.             *)
(***************************************************************************)
IsKind(i, k) == i <= Len(input) /\ tokens[i].k = k

C8_EnumerationsAreStrict ==
    \A j \in Dispatches :
        LET p == dispatched[j] IN
        /\ (tokens[p].k = "PlaylistType" /\ ~IsKind(p + 2, "PlaylistTypeValue"))
               => result = "Err"
        /\ (tokens[p].k = "Key" /\ ~IsKind(p + 4, "MethodValue"))
               => result = "Err"

C8_Witness ==
    /\ result = "Err"
    /\ dispatched # <<>>
    /\ LastDispatched.k = "PlaylistType"
    /\ IsKind(dispatched[Len(dispatched)] + 2, "String")
    /\ playlist.playlist_type = "Vod"

(***************************************************************************)
(* C9 (as claimed): a playlist of well-formed lines with unknown tag lines *)
(* between them parses to Ok and yields the document its well-formed lines *)
(* write.                                                                  *)
(***************************************************************************)
WellFormedWithUnknown(t) ==
    /\ LinesFrom(t, 1, FALSE, TRUE, FALSE)
    /\ TagsOnce(t)
    /\ \E i \in 2..(Len(t) - 1) : Unrecognized(t[i])
    /\ ~Unrecognized(t[1]) /\ ~Unrecognized(t[Len(t)])

C9_UnknownTagLinesTolerated ==
    (WellFormedWithUnknown(input) /\ result # "parsing") =>
        /\ result = "Ok"
        /\ HeaderAsWritten(input, playlist)
        /\ playlist.segments = SegmentsWritten(input)

(***************************************************************************)
(* C10 (as claimed): once the lexer has yielded an error item for a slice  *)
(* the cursor has passed, parse returns an error; no unrecognized slice is *)
(* passed over, a slice in a position a lookahead skips included.          *)
(***************************************************************************)
C10_LexErrorIsTerminal ==
    (result # "parsing" /\ \E i \in 1..lexer : tokens[i].k = "Err")
        => result = "Err"

(***************************************************************************)
(* C11: a dispatched #EXT-X-ENDLIST is the last token dispatched: parse    *)
(* returns Ok at once, pulls nothing after it, and the playlist returned   *)
(* is the one the text cut off right after that #EXT-X-ENDLIST parses to,  *)
(* so it is the same whatever follows (further #EXTINF tags, malformed     *)
(* tags and unrecognized slices included).                                 *)
(***************************************************************************)
C11_EndListStopsTheParse ==
    \A j \in Dispatches :
        tokens[dispatched[j]].k = "EndList" =>
            /\ j = Len(dispatched)
            /\ result = "Ok"
            /\ lexer = dispatched[j]
            /\ LET cut == parse(SubSeq(input, 1, dispatched[j]))
               IN  cut.result = "Ok" /\ cut.playlist = playlist

C11_Witness ==
    /\ result = "Ok"
    /\ dispatched # <<>>
    /\ LastDispatched.k = "EndList"
    /\ Len(playlist.segments) = 1
    /\ \E i \in (lexer + 1)..Len(input) : tokens[i].k \in {"Inf", "Err", "PlaylistType"}

(***************************************************************************)
(* C12: when parse returns Ok(p) without having dispatched an              *)
(* #EXT-X-ENDLIST (the stream ran out at the loop head), the same text     *)
(* with '#EXT-X-ENDLIST' appended also parses to Ok(p).                    *)
(***************************************************************************)
NoEndListDispatched == dispatched = <<>> \/ LastDispatched.k # "EndList"

C12_ImplicitEndEqualsEndList ==
    (result = "Ok" /\ NoEndListDispatched) =>
        LET ended == parse(input \o <<Word("#EXT-X-ENDLIST")>>)
        IN  ended.result = "Ok" /\ ended.playlist = playlist

C12_Witness ==
    /\ result = "Ok"
    /\ NoEndListDispatched
    /\ lexer = Len(input)
    /\ Len(playlist.segments) = 2
    /\ playlist.key # None

(***************************************************************************)
(* How a Multi-Variant Playlist is written: recognizers over the text.     *)
(***************************************************************************)
VariantKeyWords == {"PROGRAM-ID", "BANDWIDTH", "RESOLUTION", "FRAME-RATE", "CODECS"}
FrameKeyWords == {"BANDWIDTH", "RESOLUTION", "CODECS"}

\* the class of literal an attribute takes
ValueClass(key) ==
    CASE key \in {"PROGRAM-ID", "BANDWIDTH"} -> "int"
      [] key = "RESOLUTION" -> "res"
      [] key = "FRAME-RATE" -> "float"
      [] OTHER -> "quoted"

\* the literal x is within the range of the field key is stored in
FitsField(key, x) ==
    CASE key = "PROGRAM-ID" -> x.n < U8Modulus
      [] key = "RESOLUTION" -> x.w < U16Modulus /\ x.h < U16Modulus
      [] OTHER -> TRUE

\* KEY '=' value at slice i, KEY one of keys and the value of its class
PairAt(t, i, keys) ==
    /\ i + 2 <= Len(t)
    /\ IsWordIn(t[i], keys)
    /\ IsWord(t[i + 1], "=")
    /\ t[i + 2].c = ValueClass(t[i].s)
    /\ FitsField(t[i].s, t[i + 2])

\* the slice after the comma-separated pairs that start at slice i; 0 when
\* no pair starts there
RECURSIVE PairsEnd(_, _, _)
PairsEnd(t, i, keys) ==
    IF ~PairAt(t, i, keys) THEN 0
    ELSE IF i + 3 <= Len(t) /\ IsWord(t[i + 3], ",") /\ PairAt(t, i + 4, keys)
    THEN PairsEnd(t, i + 4, keys)
    ELSE i + 3

\* where key is written among slices a..b (its value follows two on)
KeyAtIn(t, a, b, key) == {j \in a..b : IsWord(t[j], key)}

WrittenOnce(t, a, b, key) == Cardinality(KeyAtIn(t, a, b, key)) = 1
WrittenAtMostOnce(t, a, b, key) == Cardinality(KeyAtIn(t, a, b, key)) <= 1

ValueIn(t, a, b, key) == t[(CHOOSE j \in KeyAtIn(t, a, b, key) : TRUE) + 2]

\* '#EXT-X-STREAM-INF' ':' attribute list, bare URI at slice i: the slice
\* after the entry, 0 when no such entry starts at i
VariantEntryEnd(t, i) ==
    IF ~(i + 1 <= Len(t) /\ IsWord(t[i], "#EXT-X-STREAM-INF") /\ IsWord(t[i + 1], ":"))
    THEN 0
    ELSE LET e == PairsEnd(t, i + 2, VariantKeyWords) IN
         IF /\ e # 0 /\ e <= Len(t) /\ t[e].c = "m3u8"
            /\ \A key \in VariantKeyWords : WrittenAtMostOnce(t, i, e, key)
            /\ WrittenOnce(t, i, e, "BANDWIDTH") /\ WrittenOnce(t, i, e, "RESOLUTION")
         THEN e + 1 ELSE 0

\* '#EXT-X-I-FRAME-STREAM-INF' ':' attribute list ending in URI="..."
FrameEntryEnd(t, i) ==
    IF ~(i + 1 <= Len(t) /\ IsWord(t[i], "#EXT-X-I-FRAME-STREAM-INF")
                         /\ IsWord(t[i + 1], ":"))
    THEN 0
    ELSE LET e == PairsEnd(t, i + 2, FrameKeyWords) IN
         IF /\ e # 0 /\ e + 3 <= Len(t)
            /\ IsWord(t[e], ",") /\ IsWord(t[e + 1], "URI") /\ IsWord(t[e + 2], "=")
            /\ t[e + 3].c = "quoted"
            /\ \A key \in FrameKeyWords : WrittenOnce(t, i, e, key)
         THEN e + 4 ELSE 0

\* the text from slice i on is a run of #EXTM3U lines and stream entries
RECURSIVE StreamLinesFrom(_, _)
StreamLinesFrom(t, i) ==
    IF i > Len(t) THEN TRUE
    ELSE IF IsWord(t[i], "#EXTM3U") THEN StreamLinesFrom(t, i + 1)
    ELSE IF VariantEntryEnd(t, i) # 0 THEN StreamLinesFrom(t, VariantEntryEnd(t, i))
    ELSE IF FrameEntryEnd(t, i) # 0 THEN StreamLinesFrom(t, FrameEntryEnd(t, i))
    ELSE FALSE

\* the stream a well-formed entry at slice i writes
VariantWritten(t, i) ==
    LET e == VariantEntryEnd(t, i) - 1
        Has(key) == KeyAtIn(t, i, e, key) # {}
        res == ValueIn(t, i, e, "RESOLUTION")
    IN  [program_id |-> IF Has("PROGRAM-ID")
                        THEN Some(ValueIn(t, i, e, "PROGRAM-ID").n) ELSE None,
         bandwidth |-> ValueIn(t, i, e, "BANDWIDTH").n,
         resolution |-> <<res.w, res.h>>,
         frame_rate |-> IF Has("FRAME-RATE")
                        THEN Some(ValueIn(t, i, e, "FRAME-RATE").q) ELSE None,
         codecs |-> IF Has("CODECS") THEN Some(ValueIn(t, i, e, "CODECS").s) ELSE None,
         uri |-> t[e].s]

FrameWritten(t, i) ==
    LET e == FrameEntryEnd(t, i) - 1
        res == ValueIn(t, i, e, "RESOLUTION")
    IN  [bandwidth |-> ValueIn(t, i, e, "BANDWIDTH").n,
         resolution |-> <<res.w, res.h>>,
         codecs |-> ValueIn(t, i, e, "CODECS").s,
         uri |-> t[e].s]

VariantsWritten(t) ==
    LET at == Ascending(Occurrences(t, "#EXT-X-STREAM-INF"))
    IN  [n \in 1..Len(at) |-> VariantWritten(t, at[n])]

FramesWritten(t) ==
    LET at == Ascending(Occurrences(t, "#EXT-X-I-FRAME-STREAM-INF"))
    IN  [n \in 1..Len(at) |-> FrameWritten(t, at[n])]

(***************************************************************************)
(* C13: a well-formed Multi-Variant Playlist (every #EXT-X-STREAM-INF      *)
(* entry an attribute list followed by a bare .m3u8 URI, every             *)
(* #EXT-X-I-FRAME-STREAM-INF entry an attribute list ending in URI="...",  *)
(* in any interleaving) parses to Ok with one variant stream per           *)
(* STREAM-INF entry and one frame stream per I-FRAME-STREAM-INF entry, the *)
(* k-th stream of each kind carrying exactly the attributes and the URI    *)
(* its k-th entry writes.                                                  *)
(***************************************************************************)
WellFormedStreams(t) == StreamLinesFrom(t, 1)

C13_WellFormedStreamsParsed ==
    (parser = "multi_variant" /\ WellFormedStreams(input) /\ result # "parsing") =>
        /\ result = "Ok"
        /\ variant_streams = VariantsWritten(input)
        /\ frame_streams = FramesWritten(input)

C13_Witness ==
    /\ parser = "multi_variant"
    /\ WellFormedStreams(input)
    /\ result = "Ok"
    /\ Len(streamSrc) = 3
    /\ streamSrc[1].fn = "parse_frame_stream"
    /\ streamSrc[2].fn = "parse_variant_stream"
    /\ streamSrc[3].fn = "parse_frame_stream"
    /\ frame_streams[1] # frame_streams[2]
    /\ variant_streams[1].program_id = None

(***************************************************************************)
(* History of a multi_variant::parse run, read from dispatched and         *)
(* streamSrc.                                                              *)
(***************************************************************************)
\* the last token index the sub-parse of the n-th pushed stream dispatched on
LastOf(n) == IF streamSrc[n].end = 0 THEN Len(input) ELSE streamSrc[n].end

\* the function whose loop pulled the dispatched token i
LoopOf(i) ==
    IF \E n \in 1..Len(streamSrc) : streamSrc[n].tag < i /\ i <= LastOf(n)
    THEN LET n == CHOOSE m \in 1..Len(streamSrc) :
                      streamSrc[m].tag < i /\ i <= LastOf(m)
         IN  streamSrc[n].fn
    ELSE IF sub # None /\ sub[1].tag < i THEN sub[1].fn
    ELSE "parse"

\* the n-th pushed stream
Rank(n) == Cardinality({m \in 1..n : streamSrc[m].fn = streamSrc[n].fn})

Pushed(n) ==
    IF streamSrc[n].fn = "parse_variant_stream"
    THEN variant_streams[Rank(n)] ELSE frame_streams[Rank(n)]

\* the token kinds the sub-parse of the n-th pushed stream dispatched on
KindsOf(n) ==
    { mvTokens[dispatched[j]].k :
          j \in {m \in Dispatches : /\ streamSrc[n].tag < dispatched[m]
                                    /\ dispatched[m] <= LastOf(n)} }

(***************************************************************************)
(* C14: PROGRAM-ID is best-effort.  When parse_variant_stream dispatches   *)
(* on PROGRAM-ID and the value after the '=' is a valid token that is not  *)
(* an integer, that step raises no error: the parse goes on.               *)
(***************************************************************************)
NonIntegerProgramIdAt(i) ==
    /\ i + 2 <= Len(input)
    /\ mvTokens[i].k = "ProgramId"
    /\ mvTokens[i + 1].k = "Equal"
    /\ mvTokens[i + 2].k \notin {"Integer", "Err"}
    /\ LoopOf(i) = "parse_variant_stream"

C14_ProgramIdIsBestEffort ==
    parser = "multi_variant" =>
        \A j \in Dispatches :
            NonIntegerProgramIdAt(dispatched[j]) =>
                ~(j = Len(dispatched) /\ result = "Err")

(***************************************************************************)
(* C15: in an Ok result every variant stream has the URI of the bare URI   *)
(* token that ended its sub-parse and every frame stream the quoted string *)
(* of the URI= attribute that ended its sub-parse; no stream is returned   *)
(* whose attribute list ran to the end of the input.                       *)
(***************************************************************************)
\* the entry of the n-th pushed stream wrote at least one attribute
HasAttributes(n) == KindsOf(n) \cap (VariantKeys \cup FrameKeys) # {}

EndedByTerminator(n) ==
    LET s == streamSrc[n] IN
    /\ s.end # 0
    /\ IF s.fn = "parse_variant_stream"
       THEN mvTokens[s.end].k = "UriValue" /\ Pushed(n).uri = mvTokens[s.end].v
       ELSE /\ mvTokens[s.end].k = "Uri"
            /\ s.end + 2 <= Len(input)
            /\ mvTokens[s.end + 2].k = "String"
            /\ Pushed(n).uri = mvTokens[s.end + 2].v

C15_EveryStreamHasItsTerminatorUri ==
    (parser = "multi_variant" /\ result = "Ok") =>
        \A n \in 1..Len(streamSrc) : HasAttributes(n) => EndedByTerminator(n)

(***************************************************************************)
(* C16: attribute lists are order-independent.  In a well-formed playlist, *)
(* exchanging two neighbouring KEY=VALUE pairs of one entry (the URI= pair *)
(* of an I-frame entry included) gives a text that parses to the same      *)
(* playlist; every permutation is a chain of such exchanges.               *)
(***************************************************************************)
AttributeWords == VariantKeyWords \cup FrameKeyWords \cup {"URI"}

\* pair ',' pair at slice i
NeighbourPairsAt(t, i) ==
    /\ PairAt(t, i, AttributeWords)
    /\ i + 3 <= Len(t)
    /\ IsWord(t[i + 3], ",")
    /\ PairAt(t, i + 4, AttributeWords)

Exchanged(t, i) ==
    SubSeq(t, 1, i - 1) \o SubSeq(t, i + 4, i + 6) \o <<t[i + 3]>>
        \o SubSeq(t, i, i + 2) \o SubSeq(t, i + 7, Len(t))

C16_AttributeOrderIsIrrelevant ==
    (parser = "multi_variant" /\ WellFormedStreams(input) /\ result = "Ok") =>
        \A i \in 1..Len(input) :
            NeighbourPairsAt(input, i) =>
                LET o == multi_variant_parse(Exchanged(input, i))
                IN  /\ o.result = "Ok"
                    /\ o.variant_streams = variant_streams
                    /\ o.frame_streams = frame_streams

(***************************************************************************)
(* C17: BANDWIDTH and RESOLUTION are required in a variant stream, and     *)
(* BANDWIDTH, RESOLUTION and CODECS in an I-frame stream: every stream of  *)
(* an Ok result whose entry ran to its terminator had each of them set by  *)
(* its own attribute list.                                                 *)
(***************************************************************************)
RequiredOf(fn) ==
    IF fn = "parse_variant_stream" THEN {"Bandwidth", "Resolution"}
    ELSE {"Bandwidth", "Resolution", "Codecs"}

C17_RequiredAttributesWereWritten ==
    (parser = "multi_variant" /\ result = "Ok") =>
        \A n \in 1..Len(streamSrc) :
            EndedByTerminator(n) => RequiredOf(streamSrc[n].fn) \subseteq KindsOf(n)

(***************************************************************************)
(* C18: a sub-parse that dispatches on a token it has no arm for fails.    *)
(* In parse_variant_stream that is every token but ':', '=', ',',          *)
(* PROGRAM-ID, BANDWIDTH, RESOLUTION, FRAME-RATE, CODECS and a bare URI;   *)
(* in parse_frame_stream every token but ':', '=', ',', BANDWIDTH,         *)
(* RESOLUTION, CODECS and URI.  A stream tag met inside a sub-parse is     *)
(* such a token: it ends the parse in error, and every entry that was      *)
(* started was started by the loop of multi_variant::parse.                *)
(***************************************************************************)
ArmsOf(fn) ==
    IF fn = "parse_variant_stream"
    THEN PunctuationTokens \cup VariantKeys \cup {"UriValue"}
    ELSE PunctuationTokens \cup FrameKeys

C18_OtherTokensFailTheSubParse ==
    parser = "multi_variant" =>
        /\ \A j \in Dispatches :
               LET i == dispatched[j] IN
               (LoopOf(i) # "parse" /\ mvTokens[i].k \notin ArmsOf(LoopOf(i))) =>
                   (j = Len(dispatched) /\ result = "Err")
        /\ \A n \in 1..Len(streamSrc) : LoopOf(streamSrc[n].tag) = "parse"
        /\ sub # None => LoopOf(sub[1].tag) = "parse"

C18_Witness ==
    /\ parser = "multi_variant"
    /\ result = "Err"
    /\ error = "Invalid variant stream"
    /\ mvTokens[lexer].k = "StreamInf"
    /\ sub # None
    /\ Len(variant_streams) = 1

(***************************************************************************)
(* Both parsers in one specification.                                      *)
(***************************************************************************)
NextBoth == Next \/ NextMultiVariant

SpecBoth == (Init \/ InitMultiVariant) /\ [][NextBoth]_vars

(***************************************************************************)
(* Both parsers under the assumption that a parse that can take a step     *)
(* takes it: parse is a sequential function that runs until it returns.    *)
(* The texts are runs of up to MaxFairLines lines, whole and cut short, so *)
(* that lookaheads run out of tokens at every depth.                       *)
(***************************************************************************)
MaxFairLines == 2

FairLines ==
    HeaderLines
    \cup { SegmentLines(6, "segment-1.ts"),
           RangeSegmentLines(6, 1316, 376, "segment-1.ts"),
           <<Word("#EXT-X-I-FRAMES-ONLY")>>,
           <<Word("#EXT-X-ENDLIST")>>,
           <<Word("#EXT-X-KEY"), Word(":"), Word("METHOD"), Word("="), Word("NONE")>>,
           <<Word("#EXTINF"), Word(":"), FloatLit(6)>>,
           <<Word("#EXT-X-VERSION")>>,
           UnknownLine(1) }

FairStreamLines ==
    OddEntries \cup { <<Word("#EXTM3U")>>,
                      CHOOSE e \in VariantEntries : Len(e) > 12,
                      CHOOSE e \in FrameEntries : TRUE }

FairInit ==
    /\ \/ /\ parser = "media_playlist"
          /\ input \in { Flatten(ls) : ls \in SeqsUpTo(FairLines, MaxFairLines) }
       \/ /\ parser = "multi_variant"
          /\ input \in { Flatten(ls) : ls \in SeqsUpTo(FairStreamLines, MaxFairLines) }
    /\ Start

FairSpec == FairInit /\ [][NextBoth]_vars /\ WF_vars(NextBoth)

(***************************************************************************)
(* C19: both parsers terminate on every finite token stream, with Ok or    *)
(* with the first error.  The cursor never moves back and never passes the *)
(* end of the stream; every step that dispatches on a token consumes at    *)
(* least that token; a step that consumes nothing ends the parse or the    *)
(* sub-parse it is in; once the stream is exhausted nothing is consumed    *)
(* any more; a parse that has returned takes no further step.              *)
(***************************************************************************)
StepMovesForward ==
    /\ lexer <= lexer' /\ lexer' <= Len(input)
    /\ dispatched' # dispatched =>
           lexer < lexer' /\ dispatched' = Append(dispatched, lexer + 1)
    /\ lexer' = lexer => (result' # "parsing" \/ (sub # None /\ sub' = None))
    /\ lexer >= Len(input) => (lexer' = lexer /\ dispatched' = dispatched)
    /\ result = "parsing"

C19_ParseTerminates ==
    /\ [][StepMovesForward]_vars
    /\ <>[](result \in {"Ok", "Err"})

C19_Witness ==
    /\ parser = "multi_variant"
    /\ result = "Ok"
    /\ lexer = Len(input)
    /\ Len(dispatched) < Len(input)
    /\ Len(variant_streams) = 1
    /\ Len(frame_streams) = 1
    /\ streamSrc[2].end = 0

(***************************************************************************)
(* C20: an integer literal wider than its field is stored truncated and    *)
(* raises no error: version and program_id hold the literal modulo 2^8,    *)
(* media_sequence, target_duration and bandwidth the literal modulo 2^32,  *)
(* each resolution component the literal modulo 2^16; a literal within the *)
(* range of its field is stored as written.  Every field is compared with  *)
(* the literal of the last line or attribute that set it.                  *)
(***************************************************************************)
\* the literal x modulo 2^32: x reads hi * 2^32 + lo when wide, n otherwise
LiteralModU32(x) == IF x.c = "wide" THEN x.lo ELSE x.n

\* stored is the literal x modulo m, m a power of two up to 2^16
TruncatedTo(stored, x, m) ==
    /\ stored = LiteralModU32(x) % m
    /\ (x.c = "int" /\ x.n < m) => stored = x.n

TruncatedToU32(stored, x) ==
    /\ stored = LiteralModU32(x)
    /\ x.c = "int" => stored = x.n

IsIntegerLiteral(t, i) == i <= Len(t) /\ t[i].c \in {"int", "wide"}

\* the dispatched tokens of kind k among the token indices a..b
DispatchedIn(toks, a, b, k) ==
    {i \in a..b : toks[i].k = k /\ \E j \in Dispatches : dispatched[j] = i}

Latest(S) == CHOOSE i \in S : \A j \in S : j <= i

\* the step that dispatched on token i has not ended the parse in error
NoErrorAt(i) == ~(result = "Err" /\ dispatched[Len(dispatched)] = i)

MediaFieldsTruncated ==
    \A k \in {"Version", "MediaSequence", "TargetDuration"} :
        LET S == DispatchedIn(tokens, 1, Len(input), k) IN
        (S # {} /\ IsIntegerLiteral(input, Latest(S) + 2)) =>
            LET x == input[Latest(S) + 2] IN
            /\ NoErrorAt(Latest(S))
            /\ k = "Version" => TruncatedTo(playlist.version, x, U8Modulus)
            /\ k = "MediaSequence" => TruncatedToU32(playlist.media_sequence, x)
            /\ k = "TargetDuration" => TruncatedToU32(playlist.target_duration, x)

StreamFieldsTruncated ==
    /\ \A i \in DispatchedIn(mvTokens, 1, Len(input), "ProgramId") :
           (LoopOf(i) = "parse_variant_stream" /\ IsIntegerLiteral(input, i + 2)) =>
               NoErrorAt(i)
    /\ \A i \in DispatchedIn(mvTokens, 1, Len(input), "Bandwidth") :
           (LoopOf(i) # "parse" /\ IsIntegerLiteral(input, i + 2)) => NoErrorAt(i)
    /\ \A n \in 1..Len(streamSrc) :
           LET a == streamSrc[n].tag
               b == LastOf(n)
               P == DispatchedIn(mvTokens, a, b, "ProgramId")
               B == DispatchedIn(mvTokens, a, b, "Bandwidth")
               R == DispatchedIn(mvTokens, a, b, "Resolution")
           IN  /\ (P # {} /\ streamSrc[n].fn = "parse_variant_stream"
                          /\ IsIntegerLiteral(input, Latest(P) + 2)) =>
                      /\ Pushed(n).program_id # None
                      /\ TruncatedTo(Pushed(n).program_id[1], input[Latest(P) + 2],
                                     U8Modulus)
               /\ (B # {} /\ IsIntegerLiteral(input, Latest(B) + 2)) =>
                      TruncatedToU32(Pushed(n).bandwidth, input[Latest(B) + 2])
               /\ (R # {} /\ Latest(R) + 2 <= Len(input)
                          /\ input[Latest(R) + 2].c = "res") =>
                      LET x == input[Latest(R) + 2] IN
                      /\ TruncatedTo(Pushed(n).resolution[1], IntLit(x.w), U16Modulus)
                      /\ TruncatedTo(Pushed(n).resolution[2], IntLit(x.h), U16Modulus)

C20_IntegersAreTruncated ==
    IF parser = "media_playlist" THEN MediaFieldsTruncated ELSE StreamFieldsTruncated

C20_Witness ==
    /\ parser = "multi_variant"
    /\ result = "Ok"
    /\ Len(variant_streams) = 1
    /\ variant_streams[1].program_id = Some(3)
    /\ variant_streams[1].bandwidth = 641061
    /\ variant_streams[1].resolution = <<1920, 360>>
    /\ \E i \in 1..Len(input) : input[i] = IntLit(259)
    /\ \E i \in 1..Len(input) : input[i] = WideLit(1, 641061)
    /\ \E i \in 1..Len(input) : input[i] = ResLit(67456, 65896)
    /\ Len(frame_streams) = 1
    /\ frame_streams[1].bandwidth = 58096
    /\ \E i \in 1..Len(input) : input[i] = WideLit(2, 58096)

====
